---- MODULE Spec2Model ----
(***************************************************************************)
(* Messaging app (Django-signals_orm-0x04/messaging): the Message,         *)
(* MessageHistory and Notification tables, the in-memory Message objects   *)
(* held by callers, the pre_save / post_save signal handlers that run      *)
(* inside Message.save(), the account views and the admin site of Message. *)
(* Chats app (messaging_app/chats): the messages of the conversations and  *)
(* their per-user read marks.                                              *)
(***************************************************************************)
EXTENDS Integers, Sequences, FiniteSets, Bags, TLC

\* ---------------------------------------------------------------- bounds
\* Message identifiers ever assigned (uuid4 values are fresh: 1, 2, ...).
MaxMessages == 2
\* MessageHistory rows ever created.
MaxHistory == 2
\* Notifications created in one behaviour (one per insert of a message).
MaxNotifications == 3
\* Messages created through the chats API.
MaxChatMessages == 2

\* The mark_read requests that can be in progress at the same time.
MaxRequests == 2

\* ------------------------------------------------------------ input sets
\* Primary keys of the users of the tests (auth.User rows).
Users == {1, 2, 3}
\* The users that send, and those that receive, in the runs explored: every
\* user takes part, one both sends and receives, and a message to oneself
\* occurs.
Senders == {1, 2}
Receivers == {2, 3}
\* User.username of each user.
username == (1 :> "user1" @@ 2 :> "user2" @@ 3 :> "user3")
\* Message texts.
Contents == {"Version 1", "Version 2"}
\* Python variables holding a Message object (`message = ...`).
Handles == {"h1"}
\* The local variables of two callers that hold the same message.
Copies == {"h1", "h2"}

MsgIds == 1..MaxMessages
\* The statement of a save at which the database fails ("none": nowhere).
Faults == {"none", "history", "write", "notification"}
\* The form data posted to delete_user: the confirmation typed, or none.
Forms == {<<>>,
          [confirmation |-> <<"d", "e", "l", "e", "t", "e">>],
          [confirmation |-> <<"D", "e", "L", "E", "T", "e">>],
          [confirmation |-> <<"D", "E", "L">>]}

\* A nullable column is <<>> (NULL) or <<v>>.
\* Users of the chat API.
ChatUsers == {1, 2, 3}
\* The conversations the users have created: user 1 with users 2 and 3,
\* and user 2 with user 3 (perform_create adds the creator).
Conversations == <<{2, 3} \cup {1}, {3} \cup {2}>>

NULL == <<>>
Some(v) == <<v>>

VARIABLES
    users,          \* auth.User rows (primary keys)
    messages,       \* Message table: message_id -> row
    history,        \* MessageHistory rows, in creation (edited_at) order
    notifications,  \* Notification rows
    objs,           \* in-memory Message objects: handle -> object
    versions,       \* per stored message, the contents its row has held
    nextMessageId,  \* next fresh Message.message_id
    nextHistoryId,  \* next fresh MessageHistory.history_id
    nextNotificationId, \* next fresh Notification.notification_id
    clock,          \* timezone.now()
    last,           \* the operation that produced this state
    conversations,  \* chats: Conversation rows, each the set of participants
    chat_messages,  \* chats: Message rows of the conversations
    read_statuses,  \* chats: MessageReadStatus rows <<message, user>> (a bag)
    reply,          \* chats: the response to the last request
    is_active,      \* chats: Conversation.is_active of each conversation
    requests        \* the requests that have read and have not yet written

\* The tables of the chats app (messaging_app/chats).
chats == <<conversations, chat_messages, read_statuses, reply, is_active,
           requests>>

\* What a request of the messaging app that is in progress leaves alone.
chat_tables == <<conversations, chat_messages, read_statuses, reply,
                 is_active>>

\* What the message and read-mark endpoints of the chats app leave alone.
participation == <<is_active, requests>>

\* The tables and objects of the messaging app.
messaging == <<users, messages, history, notifications, objs, versions,
               nextMessageId, nextHistoryId, nextNotificationId, clock, last>>

vars == <<users, messages, history, notifications, objs, versions,
          nextMessageId, nextHistoryId, nextNotificationId, clock, last,
          conversations, chat_messages, read_statuses, reply, is_active,
          requests>>

\* ------------------------------------------------------------ the models
\* Message(sender, receiver, content): message_id defaults to a fresh uuid,
\* edited to False, last_edited_at to NULL.
Message(id, s, r, c) ==
    [pk |-> id, sender |-> s, receiver |-> r, content |-> c,
     edited |-> FALSE, last_edited_at |-> NULL]

\* The row written for an object (every column is written by save()).
RowOf(instance) ==
    [sender |-> instance.sender, receiver |-> instance.receiver,
     content |-> instance.content, edited |-> instance.edited,
     last_edited_at |-> instance.last_edited_at]

\* The object loaded from a stored row (Message.objects.get).
ObjectOf(id, row) ==
    [pk |-> id, sender |-> row.sender, receiver |-> row.receiver,
     content |-> row.content, edited |-> row.edited,
     last_edited_at |-> row.last_edited_at]

\* MessageHistory.objects.create(message, old_content, edited_by):
\* history_id is fresh, edited_at is auto_now_add.
MessageHistory(id, m, old, by, t) ==
    [history_id |-> id, message |-> m, old_content |-> old,
     edited_at |-> t, edited_by |-> Some(by)]

\* Notification.objects.create(user, message, notification_type, content):
\* notification_id is fresh, is_read defaults to False.
Notification(id, u, m, type, c) ==
    [notification_id |-> id, user |-> u, message |-> m,
     notification_type |-> type, content |-> c, is_read |-> FALSE]

\* ---------------------------------------------------------- the handlers
\* A handler with the test inverted: it notifies on every save but the first.
create_message_notification_on_update(instance, created, notifs, nid) ==
    IF ~created
    THEN notifs \cup {Notification(nid, instance.receiver, instance.pk,
                          "message",
                          "You have a new message from "
                              \o username[instance.sender])}
    ELSE notifs

\* A handler that addresses the notification to the sender.
create_message_notification_to_sender(instance, created, notifs, nid) ==
    IF created
    THEN notifs \cup {Notification(nid, instance.sender, instance.pk,
                          "message",
                          "You have a new message from "
                              \o username[instance.sender])}
    ELSE notifs

\* A handler that also notifies on update (the `if created` test is lost).
create_message_notification_on_every_save(instance, created, notifs, nid) ==
    notifs \cup {Notification(nid, instance.receiver, instance.pk, "message",
                     "You have a new message from "
                         \o username[instance.sender])}

\* post_save receiver create_message_notification: the notifications table
\* after the handler ran for `instance`.
create_message_notification(instance, created, notifs, nid) ==
    IF created
    THEN LET notification_content ==
                 "You have a new message from " \o username[instance.sender]
         IN  notifs \cup {Notification(nid, instance.receiver, instance.pk,
                                       "message", notification_content)}
    ELSE notifs

\* A second handler that creates a notification of its own.
log_message_creation_notifies(instance, created, notifs) ==
    IF created
    THEN notifs \cup {Notification(0, instance.receiver, instance.pk,
                          "message", "New message logged")}
    ELSE notifs

\* post_save receiver log_message_creation: prints, writes nothing.
log_message_creation(instance, created, notifs) == notifs

\* The handler's result when it writes a history row holding `old` for the
\* editor `by`, and marks the object edited when `mark` holds.
Logged(instance, hist, hid, now, old, by, mark) ==
    [instance |-> IF mark
                  THEN [instance EXCEPT !.edited = TRUE,
                                        !.last_edited_at = Some(now)]
                  ELSE instance,
     history  |-> Append(hist, MessageHistory(hid, instance.pk, old, by, now)),
     logged   |-> TRUE,
     raised   |-> FALSE]

\* The handler's result when it writes nothing.
Skipped(instance, hist) ==
    [instance |-> instance, history |-> hist, logged |-> FALSE,
     raised |-> FALSE]

\* A handler that snapshots the incoming content instead of the stored one.
log_message_edit_new_content(instance, msgs, hist, hid, now) ==
    IF instance.pk \in DOMAIN msgs
    THEN IF msgs[instance.pk].content # instance.content
         THEN Logged(instance, hist, hid, now, instance.content,
                     instance.sender, TRUE)
         ELSE Skipped(instance, hist)
    ELSE Skipped(instance, hist)

\* A handler that does not compare the contents.
log_message_edit_uncompared(instance, msgs, hist, hid, now) ==
    IF instance.pk \in DOMAIN msgs
    THEN Logged(instance, hist, hid, now, msgs[instance.pk].content,
                instance.sender, TRUE)
    ELSE Skipped(instance, hist)

\* A handler that takes a missing row for a row with empty content.
log_message_edit_missing_row(instance, msgs, hist, hid, now) ==
    LET old_content == IF instance.pk \in DOMAIN msgs
                       THEN msgs[instance.pk].content ELSE ""
    IN  IF old_content # instance.content
        THEN Logged(instance, hist, hid, now, old_content,
                    instance.sender, TRUE)
        ELSE Skipped(instance, hist)

\* A handler that marks the object as edited when its row is gone.
log_message_edit_marks_missing(instance, msgs, hist, hid, now) ==
    IF instance.pk \in DOMAIN msgs
    THEN IF msgs[instance.pk].content # instance.content
         THEN Logged(instance, hist, hid, now, msgs[instance.pk].content,
                     instance.sender, TRUE)
         ELSE Skipped(instance, hist)
    ELSE [instance |-> [instance EXCEPT !.edited = TRUE,
                                        !.last_edited_at = Some(now)],
          history |-> hist, logged |-> FALSE, raised |-> FALSE]

\* A handler that writes the history row but does not mark the object.
log_message_edit_unmarked(instance, msgs, hist, hid, now) ==
    IF instance.pk \in DOMAIN msgs
    THEN IF msgs[instance.pk].content # instance.content
         THEN Logged(instance, hist, hid, now, msgs[instance.pk].content,
                     instance.sender, FALSE)
         ELSE Skipped(instance, hist)
    ELSE Skipped(instance, hist)

\* A handler that records the receiver as the editor.
log_message_edit_by_receiver(instance, msgs, hist, hid, now) ==
    IF instance.pk \in DOMAIN msgs
    THEN IF msgs[instance.pk].content # instance.content
         THEN Logged(instance, hist, hid, now, msgs[instance.pk].content,
                     instance.receiver, TRUE)
         ELSE Skipped(instance, hist)
    ELSE Skipped(instance, hist)

\* pre_save receiver log_message_edit: the object and the history table
\* after the handler ran for `instance` against the stored rows `msgs`.
log_message_edit(instance, msgs, hist, hid, now) ==
    IF instance.pk \in MsgIds                       \* if instance.pk:
    THEN IF instance.pk \in DOMAIN msgs             \* Message.objects.get
         THEN LET old_message == msgs[instance.pk]
              IN  IF old_message.content # instance.content
                  THEN Logged(instance, hist, hid, now, old_message.content,
                              instance.sender, TRUE)
                  ELSE Skipped(instance, hist)
         ELSE Skipped(instance, hist)               \* DoesNotExist: pass
    ELSE Skipped(instance, hist)

\* ------------------------------------------------------------------ ORM
\* A cascade that follows Message.sender only.
CascadedMessages_sender_only(u, msgs) ==
    {m \in DOMAIN msgs : msgs[m].sender = u}

\* A cleanup that removes every message.
CascadedMessages_all(u, msgs) == DOMAIN msgs

\* Rows removed with user u: on_delete=CASCADE of Message.sender/receiver.
CascadedMessages(u, msgs) ==
    {m \in DOMAIN msgs : msgs[m].sender = u \/ msgs[m].receiver = u}

Restrict(f, S) == [x \in S |-> f[x]]

\* The write of save(): UPDATE of the row with the object's pk, INSERT when
\* no row was updated; the INSERT needs the rows its foreign keys name.
save_table(instance, msgs, usrs) ==
    IF instance.pk \in DOMAIN msgs
    THEN [outcome  |-> "updated",
          messages |-> [msgs EXCEPT ![instance.pk] = RowOf(instance)]]
    ELSE IF instance.sender \in usrs /\ instance.receiver \in usrs
    THEN [outcome  |-> "inserted",
          messages |-> (instance.pk :> RowOf(instance)) @@ msgs]
    ELSE [outcome |-> "IntegrityError", messages |-> msgs]

\* A MessageHistory.message that does not cascade.
HistoryAfterDelete_no_cascade(u, gone, hist) ==
    [i \in 1..Len(hist) |->
        IF hist[i].edited_by = Some(u)
        THEN [hist[i] EXCEPT !.edited_by = NULL]
        ELSE hist[i]]

\* MessageHistory after deleting user u together with the messages `gone`:
\* message is CASCADE, edited_by is SET_NULL.
HistoryAfterDelete(u, gone, hist) ==
    LET kept == SelectSeq(hist, LAMBDA row : row.message \notin gone)
    IN  [i \in 1..Len(kept) |->
            IF kept[i].edited_by = Some(u)
            THEN [kept[i] EXCEPT !.edited_by = NULL]
            ELSE kept[i]]

\* Notification after deleting user u together with the messages `gone`:
\* user and message are both CASCADE.
NotificationsAfterDelete(u, gone, notifs) ==
    {n \in notifs : n.user # u /\ n.message \notin gone}

\* --------------------------------------------------------------- actions
Init ==
    /\ users = Users
    /\ messages = <<>>
    /\ history = <<>>
    /\ notifications = {}
    /\ objs = <<>>
    /\ versions = <<>>
    /\ nextMessageId = 1
    /\ nextHistoryId = 1
    /\ nextNotificationId = 1
    /\ clock = 1
    /\ last = [op |-> "init"]
    /\ conversations = Conversations
    /\ chat_messages = <<>>
    /\ read_statuses = EmptyBag
    /\ reply = [op |-> "init"]
    /\ is_active = [c \in DOMAIN Conversations |-> TRUE]
    /\ requests = {}

\* A save whose post_save receiver catches the error of its create call.
save_swallowing(instance, fault) ==
    LET pre      == log_message_edit(instance, messages, history,
                                     nextHistoryId, clock)
        pre_err  == pre.raised \/ (pre.logged /\ fault = "history")
        written  == save_table(pre.instance, messages, users)
        row_err  == ~pre_err /\ (written.outcome = "IntegrityError"
                                    \/ fault = "write")
        created  == written.outcome = "inserted"
        post_err == ~pre_err /\ ~row_err /\ created
                       /\ fault = "notification"
        n1       == create_message_notification(pre.instance, created,
                                                notifications,
                                                nextNotificationId)
        n2       == log_message_creation(pre.instance, created, n1)
    IN  [instance      |-> IF pre_err THEN instance ELSE pre.instance,
         raised        |-> pre_err \/ row_err,
         cause         |-> IF pre.raised THEN "DoesNotExist"
                           ELSE IF pre_err THEN "history"
                           ELSE IF row_err /\ fault = "write" THEN "write"
                           ELSE IF row_err THEN "IntegrityError"
                           ELSE "none",
         created       |-> created,
         changed       |-> /\ written.outcome = "updated"
                           /\ messages[instance.pk].content
                                 # written.messages[instance.pk].content,
         messages      |-> IF pre_err \/ row_err THEN messages
                                                 ELSE written.messages,
         history       |-> IF pre_err THEN history ELSE pre.history,
         notifications |-> IF pre_err \/ row_err \/ post_err
                           THEN notifications ELSE n2]

\* Model.save() of `instance`, statement by statement: the pre_save
\* receiver, the write of the row, and the post_save receivers with
\* created = (the row was inserted). `fault` names the statement at which
\* the database fails, if any. No receiver catches the error of its create
\* call, so it leaves save(); the statements after it do not run. The
\* result holds what the statements before it have written.
save(instance, fault) ==
    LET pre      == log_message_edit(instance, messages, history,
                                     nextHistoryId, clock)
        pre_err  == pre.raised \/ (pre.logged /\ fault = "history")
        written  == save_table(pre.instance, messages, users)
        row_err  == ~pre_err /\ (written.outcome = "IntegrityError"
                                    \/ fault = "write")
        created  == written.outcome = "inserted"
        post_err == ~pre_err /\ ~row_err /\ created
                       /\ fault = "notification"
        n1       == create_message_notification(pre.instance, created,
                                                notifications,
                                                nextNotificationId)
        n2       == log_message_creation(pre.instance, created, n1)
    IN  [instance      |-> IF pre_err THEN instance ELSE pre.instance,
         raised        |-> pre_err \/ row_err \/ post_err,
         cause         |-> IF pre.raised THEN "DoesNotExist"
                           ELSE IF pre_err THEN "history"
                           ELSE IF row_err /\ fault = "write" THEN "write"
                           ELSE IF row_err THEN "IntegrityError"
                           ELSE IF post_err THEN "notification"
                           ELSE "none",
         created       |-> created,
         changed       |-> /\ written.outcome = "updated"
                           /\ messages[instance.pk].content
                                 # written.messages[instance.pk].content,
         messages      |-> IF pre_err \/ row_err THEN messages
                                                 ELSE written.messages,
         history       |-> IF pre_err THEN history ELSE pre.history,
         notifications |-> IF pre_err \/ row_err \/ post_err
                           THEN notifications ELSE n2]

\* The transaction that encloses the request: when save() raised, what it
\* had written is rolled back.
atomic(done) ==
    IF done.raised
    THEN [done EXCEPT !.messages = messages, !.history = history,
                      !.notifications = notifications]
    ELSE done

\* The effect of a request that calls save() on the tables, the counters
\* and the clock.
Saved(done) ==
    /\ messages' = done.messages
    /\ history' = done.history
    /\ notifications' = done.notifications
    /\ versions' =
          IF done.raised THEN versions
          ELSE IF done.created
          THEN (done.instance.pk :> <<done.instance.content>>) @@ versions
          ELSE IF done.changed
          THEN [versions EXCEPT
                  ![done.instance.pk] = Append(@, done.instance.content)]
          ELSE versions
    /\ nextHistoryId' = IF done.history # history THEN nextHistoryId + 1
                                                   ELSE nextHistoryId
    /\ nextNotificationId' = IF done.notifications # notifications
                             THEN nextNotificationId + 1
                             ELSE nextNotificationId
    /\ clock' = IF done.history # history THEN clock + 1 ELSE clock

\* The in-memory objects after handle h was bound to `instance`.
Bound(h, instance) == (h :> instance) @@ Restrict(objs, DOMAIN objs \ {h})

\* message = Message.objects.create(sender=s, receiver=r, content=c)
Create(h, s, r, c, fault) ==
    /\ nextMessageId <= MaxMessages
    /\ s \in users /\ r \in users
    /\ LET done == atomic(save(Message(nextMessageId, s, r, c), fault))
       IN  /\ Saved(done)
           /\ objs' = IF done.raised THEN objs ELSE Bound(h, done.instance)
           /\ nextMessageId' = IF done.raised THEN nextMessageId
                                              ELSE nextMessageId + 1
           /\ last' = IF done.raised
                      THEN [op |-> "create_failed", cause |-> done.cause]
                      ELSE [op |-> "create", handle |-> h,
                            pk |-> nextMessageId]
    /\ UNCHANGED chats
    /\ UNCHANGED users

\* message = Message.objects.get(pk=m)  /  message.refresh_from_db()
Get(h, m) ==
    /\ m \in DOMAIN messages
    /\ objs' = Bound(h, ObjectOf(m, messages[m]))
    /\ last' = [op |-> "get"]
    /\ UNCHANGED chats
    /\ UNCHANGED <<users, messages, history, notifications, versions,
                   nextMessageId, nextHistoryId, nextNotificationId, clock>>

\* message.content = c
SetContent(h, c) ==
    /\ h \in DOMAIN objs
    /\ objs[h].content # c
    /\ objs' = [objs EXCEPT ![h].content = c]
    /\ last' = [op |-> "set_content"]
    /\ UNCHANGED chats
    /\ UNCHANGED <<users, messages, history, notifications, versions,
                   nextMessageId, nextHistoryId, nextNotificationId, clock>>

\* message.save()
Save(h, fault) ==
    /\ h \in DOMAIN objs
    /\ LET done == atomic(save(objs[h], fault))
       IN  /\ done.history # history => nextHistoryId <= MaxHistory
           /\ done.notifications # notifications
                 => nextNotificationId <= MaxNotifications
           /\ Saved(done)
           /\ objs' = Bound(h, done.instance)
           /\ last' = IF done.raised
                      THEN [op |-> "save_failed", handle |-> h,
                            pk |-> objs[h].pk, cause |-> done.cause,
                            stored |-> objs[h].pk \in DOMAIN messages]
                      ELSE [op |-> "save", handle |-> h, pk |-> objs[h].pk,
                            created |-> done.created,
                            changed |-> done.changed]
    /\ UNCHANGED chats
    /\ UNCHANGED <<users, nextMessageId>>

\* user.delete()
DeleteUser(u) ==
    /\ u \in users
    /\ LET gone == CascadedMessages(u, messages)
       IN  /\ users' = users \ {u}
           /\ messages' = Restrict(messages, DOMAIN messages \ gone)
           /\ versions' = Restrict(versions, DOMAIN versions \ gone)
           /\ history' = HistoryAfterDelete(u, gone, history)
           /\ notifications' = NotificationsAfterDelete(u, gone, notifications)
           /\ last' = [op |-> "delete_user", user |-> u, gone |-> gone,
                       notified |-> {n \in notifications : n.user = u}]
    /\ UNCHANGED chats
    /\ UNCHANGED <<objs, nextMessageId, nextHistoryId, nextNotificationId,
                   clock>>

\* request.POST.get(key, default)
get(POST, key, default) == IF key \in DOMAIN POST THEN POST[key] ELSE default

\* str.lower() on the characters the requests use.
lower_char == ("D" :> "d" @@ "E" :> "e" @@ "L" :> "l" @@ "T" :> "t")
lower(str) ==
    [i \in 1..Len(str) |->
        IF str[i] \in DOMAIN lower_char THEN lower_char[str[i]] ELSE str[i]]

\* A view that deletes the account whatever was typed.
delete_user_unconfirmed(u, POST, fault) ==
    LET confirmation == get(POST, "confirmation", <<>>)
        confirmed    == TRUE
        deleted      == confirmed /\ fault = "none"
        gone         == IF deleted THEN CascadedMessages(u, messages) ELSE {}
    IN  [deleted       |-> deleted,
         gone          |-> gone,
         users         |-> IF deleted THEN users \ {u} ELSE users,
         messages      |-> Restrict(messages, DOMAIN messages \ gone),
         history       |-> IF deleted
                           THEN HistoryAfterDelete(u, gone, history)
                           ELSE history,
         notifications |-> IF deleted
                           THEN NotificationsAfterDelete(u, gone,
                                                         notifications)
                           ELSE notifications,
         redirect      |-> IF deleted THEN "account_deleted"
                                      ELSE "delete_user_account"]

\* The view delete_user for the logged-in user u with the form data POST:
\* the account is deleted when the lower-cased confirmation is 'delete' and
\* the deletion does not raise; otherwise the view redirects back.
delete_user(u, POST, fault) ==
    LET confirmation == get(POST, "confirmation", <<>>)
        confirmed    == lower(confirmation) = <<"d", "e", "l", "e", "t", "e">>
        deleted      == confirmed /\ fault = "none"
        gone         == IF deleted THEN CascadedMessages(u, messages) ELSE {}
    IN  [deleted       |-> deleted,
         gone          |-> gone,
         users         |-> IF deleted THEN users \ {u} ELSE users,
         messages      |-> Restrict(messages, DOMAIN messages \ gone),
         history       |-> IF deleted
                           THEN HistoryAfterDelete(u, gone, history)
                           ELSE history,
         notifications |-> IF deleted
                           THEN NotificationsAfterDelete(u, gone,
                                                         notifications)
                           ELSE notifications,
         redirect      |-> IF deleted THEN "account_deleted"
                                      ELSE "delete_user_account"]

\* POST /delete-account/confirm/ by the logged-in user u
DeleteUserRequest(u, POST, fault) ==
    /\ u \in users
    /\ LET done == delete_user(u, POST, fault)
       IN  /\ users' = done.users
           /\ messages' = done.messages
           /\ versions' = Restrict(versions, DOMAIN versions \ done.gone)
           /\ history' = done.history
           /\ notifications' = done.notifications
           /\ last' = IF done.deleted
                      THEN [op |-> "delete_user", user |-> u,
                            gone |-> done.gone,
                            notified |-> {n \in notifications : n.user = u},
                            POST |-> POST, redirect |-> done.redirect]
                      ELSE [op |-> "delete_refused", POST |-> POST,
                            redirect |-> done.redirect]
    /\ UNCHANGED chats
    /\ UNCHANGED <<objs, nextMessageId, nextHistoryId, nextNotificationId,
                   clock>>

\* A mark_as_read that marks every notification of the same user.
mark_as_read_of_user(n, notifs) ==
    {IF row.user = n.user THEN [row EXCEPT !.is_read = TRUE] ELSE row :
        row \in notifs}

\* Notification.mark_as_read() on a notification just fetched: is_read is
\* set on the object and the object is saved over its row. No receiver is
\* connected to Notification.
mark_as_read(n, notifs) ==
    {IF row.notification_id = n.notification_id
     THEN [n EXCEPT !.is_read = TRUE] ELSE row : row \in notifs}

\* Notification.objects.get(notification_id=n.notification_id).mark_as_read()
MarkAsRead(n) ==
    /\ n \in notifications
    /\ notifications' = mark_as_read(n, notifications)
    /\ last' = [op |-> "mark_as_read", notification |-> n.notification_id]
    /\ UNCHANGED chats
    /\ UNCHANGED <<users, messages, history, objs, versions, nextMessageId,
                   nextHistoryId, nextNotificationId, clock>>

\* The view user_data_summary for the logged-in user u.
user_data_summary(u) ==
    LET sent_messages     == {m \in DOMAIN messages : messages[m].sender = u}
        received_messages == {m \in DOMAIN messages :
                                 messages[m].receiver = u}
        user_notifications == {n \in notifications : n.user = u}
    IN  [sent_messages_count     |-> Cardinality(sent_messages),
         received_messages_count |-> Cardinality(received_messages),
         total_messages          |-> Cardinality(sent_messages)
                                        + Cardinality(received_messages),
         notifications_count     |-> Cardinality(user_notifications),
         unread_notifications_count |->
             Cardinality({n \in user_notifications : ~n.is_read})]

\* The change form of MessageAdmin for message m, submitted with sender s
\* and receiver r (content, edited and last_edited_at as loaded): the
\* form's object is saved, with the receivers of Message.
AdminChangeMessage(m, s, r) ==
    /\ m \in DOMAIN messages
    /\ s \in users /\ r \in users
    /\ LET obj  == [ObjectOf(m, messages[m]) EXCEPT
                       !.sender = s, !.receiver = r]
           done == atomic(save(obj, "none"))
       IN  /\ Saved(done)
           /\ last' = [op |-> "admin_change", pk |-> m]
    /\ UNCHANGED chats
    /\ UNCHANGED <<users, objs, nextMessageId>>

\* The delete view of MessageAdmin for message m: the row goes, and with
\* it the MessageHistory and Notification rows that name it (CASCADE).
AdminDeleteMessage(m) ==
    /\ m \in DOMAIN messages
    /\ messages' = Restrict(messages, DOMAIN messages \ {m})
    /\ versions' = Restrict(versions, DOMAIN versions \ {m})
    /\ history' = SelectSeq(history, LAMBDA row : row.message # m)
    /\ notifications' = {n \in notifications : n.message # m}
    /\ last' = [op |-> "admin_delete", pk |-> m]
    /\ UNCHANGED chats
    /\ UNCHANGED <<users, objs, nextMessageId, nextHistoryId,
                   nextNotificationId, clock>>

\* The messages used through the model and the views, on a database that
\* does not fail.
Next ==
    \/ \E h \in Handles, s \in Senders, r \in Receivers, c \in Contents :
          Create(h, s, r, c, "none")
    \/ \E h \in Handles, m \in MsgIds : Get(h, m)
    \/ \E h \in Handles, c \in Contents : SetContent(h, c)
    \/ \E h \in Handles : Save(h, "none")
    \/ \E u \in Users : DeleteUser(u)
    \/ \E u \in Users, POST \in Forms : DeleteUserRequest(u, POST, "none")

Spec == Init /\ [][Next]_vars

\* The messages and their notifications, which the users read.
NextRead ==
    \/ \E h \in Handles, s \in Senders, r \in Receivers, c \in Contents :
          Create(h, s, r, c, "none")
    \/ \E h \in Handles, m \in MsgIds : Get(h, m)
    \/ \E h \in Handles, c \in Contents : SetContent(h, c)
    \/ \E h \in Handles : Save(h, "none")
    \/ \E u \in Users : DeleteUser(u)
    \/ \E n \in notifications : MarkAsRead(n)

SpecRead == Init /\ [][NextRead]_vars

\* The messages on a database that may fail at any statement of a save.
NextFaults ==
    \/ \E h \in Handles, s \in Senders, r \in Receivers, c \in Contents,
          fault \in Faults :
          Create(h, s, r, c, fault)
    \/ \E h \in Handles, m \in MsgIds : Get(h, m)
    \/ \E h \in Handles, c \in Contents : SetContent(h, c)
    \/ \E h \in Handles, fault \in Faults : Save(h, fault)
    \/ \E u \in Users : DeleteUser(u)

SpecFaults == Init /\ [][NextFaults]_vars

\* Messages from user 1 to user 2, saved by their holders and through the
\* change form of the admin site.
NextAdmin ==
    \/ \E h \in Handles, c \in Contents : Create(h, 1, 2, c, "none")
    \/ \E h \in Handles, m \in MsgIds : Get(h, m)
    \/ \E h \in Handles, c \in Contents : SetContent(h, c)
    \/ \E h \in Handles : Save(h, "none")
    \/ \E m \in MsgIds, s \in Senders, r \in Receivers :
          AdminChangeMessage(m, s, r)

SpecAdmin == Init /\ [][NextAdmin]_vars

\* The messages, with rows deleted under the objects that hold them: by
\* the deletion of a user and by the delete view of the admin site.
NextDelete ==
    \/ \E h \in Handles, s \in Senders, r \in Receivers, c \in Contents :
          Create(h, s, r, c, "none")
    \/ \E h \in Handles, m \in MsgIds : Get(h, m)
    \/ \E h \in Handles, c \in Contents : SetContent(h, c)
    \/ \E h \in Handles : Save(h, "none")
    \/ \E u \in Users : DeleteUser(u)
    \/ \E m \in MsgIds : AdminDeleteMessage(m)

SpecDelete == Init /\ [][NextDelete]_vars

\* Two callers that hold copies of the same message and save them one
\* after the other.
NextStale ==
    \/ \E h \in Copies, c \in Contents : Create(h, 1, 2, c, "none")
    \/ \E h \in Copies, m \in MsgIds : Get(h, m)
    \/ \E h \in Copies, c \in Contents : SetContent(h, c)
    \/ \E h \in Copies : Save(h, "none")

SpecStale == Init /\ [][NextStale]_vars

\* ---------------------------------------------------- concurrent saves
\* The save() in progress of the caller that holds handle h.
Saving(h) == [op |-> "save", handle |-> h]

\* The caller that holds handle h is not inside save().
Idle(h) == Saving(h) \notin requests

\* message.save() of a stored message, first part: the pre_save signal.
\* log_message_edit reads the stored row, compares, inserts the history row
\* and marks the object; the row write follows in Write.
PreSave(h) ==
    /\ h \in DOMAIN objs
    /\ Idle(h)
    /\ objs[h].pk \in DOMAIN messages
    /\ LET pre == log_message_edit(objs[h], messages, history,
                                   nextHistoryId, clock)
       IN  /\ pre.logged => nextHistoryId <= MaxHistory
           /\ history' = pre.history
           /\ objs' = Bound(h, pre.instance)
           /\ nextHistoryId' = IF pre.logged THEN nextHistoryId + 1
                                             ELSE nextHistoryId
           /\ clock' = IF pre.logged THEN clock + 1 ELSE clock
           /\ last' = [op |-> "pre_save", handle |-> h, pk |-> objs[h].pk,
                       logged |-> pre.logged]
    /\ requests' = requests \cup {Saving(h)}
    /\ UNCHANGED <<users, messages, notifications, versions, nextMessageId,
                   nextNotificationId>>
    /\ UNCHANGED chat_tables

\* message.save(), second part: the row write and the post_save signal.
Write(h) ==
    /\ Saving(h) \in requests
    /\ LET instance == objs[h]
           written  == save_table(instance, messages, users)
           created  == written.outcome = "inserted"
           changed  == /\ written.outcome = "updated"
                       /\ messages[instance.pk].content # instance.content
           n1       == create_message_notification(instance, created,
                                                   notifications,
                                                   nextNotificationId)
           n2       == log_message_creation(instance, created, n1)
       IN  /\ written.outcome # "IntegrityError"
           /\ n2 # notifications => nextNotificationId <= MaxNotifications
           /\ changed => Len(versions[instance.pk]) <= MaxHistory
           /\ messages' = written.messages
           /\ notifications' = n2
           /\ nextNotificationId' = IF n2 # notifications
                                    THEN nextNotificationId + 1
                                    ELSE nextNotificationId
           /\ versions' =
                 IF created
                 THEN (instance.pk :> <<instance.content>>) @@ versions
                 ELSE IF changed
                 THEN [versions EXCEPT
                         ![instance.pk] = Append(@, instance.content)]
                 ELSE versions
           /\ last' = [op |-> "write", handle |-> h, pk |-> instance.pk,
                       changed |-> changed]
    /\ requests' = requests \ {Saving(h)}
    /\ UNCHANGED <<users, history, objs, nextMessageId, nextHistoryId, clock>>
    /\ UNCHANGED chat_tables

\* Two callers that create, load, edit and save messages, the two parts of
\* their saves interleaved.
NextConcurrent ==
    \/ \E h \in Copies, c \in Contents :
          Idle(h) /\ Create(h, 1, 2, c, "none")
    \/ \E h \in Copies, m \in MsgIds : Idle(h) /\ Get(h, m)
    \/ \E h \in Copies, c \in Contents : Idle(h) /\ SetContent(h, c)
    \/ \E h \in Copies : PreSave(h)
    \/ \E h \in Copies : Write(h)

SpecConcurrent == Init /\ [][NextConcurrent]_vars

\* ------------------------------------------------------- the chats app
\* A Message of the chats app as the messages endpoint creates it: is_read
\* is not posted and takes its default.
ChatMessage(s, c) ==
    [sender |-> s, conversation |-> c, is_read |-> FALSE]

\* MessageViewSet.get_queryset(): the messages of the conversations in
\* which u is a participant.
get_queryset(u) ==
    {m \in DOMAIN chat_messages :
        u \in conversations[chat_messages[m].conversation]}

\* conversation.messages
messages_of(c) ==
    {m \in DOMAIN chat_messages : chat_messages[m].conversation = c}

\* The unique constraint of MessageReadStatus on (message, user): a row
\* that is in the table already cannot be inserted again.
unique_together(row, table) == BagIn(row, table)

\* A bulk_create that inserts every row it is given.
bulk_create_duplicating(rows, table) == table (+) SetToBag(rows)

\* MessageReadStatus.objects.bulk_create(rows, ignore_conflicts=True)
bulk_create(rows, table) ==
    table (+) SetToBag({row \in rows : ~unique_together(row, table)})

\* MessageReadStatus.objects.get_or_create(message=m, user=u)
get_or_create(row, table) ==
    IF BagIn(row, table)
    THEN [table |-> table, created |-> FALSE]
    ELSE [table |-> table (+) SetToBag({row}), created |-> TRUE]

\* A mark_read that only leaves out the user's own messages.
conversation_mark_read_all(u, c, table) ==
    LET unread_messages == {m \in messages_of(c) :
                               chat_messages[m].sender # u}
        rows == {<<m, u>> : m \in unread_messages}
    IN  [read_statuses |-> bulk_create(rows, table),
         marked        |-> Cardinality(rows)]

\* ConversationViewSet.mark_read by participant u on conversation c.
conversation_mark_read(u, c, table) ==
    LET unread_messages == {m \in messages_of(c) :
                               /\ chat_messages[m].sender # u
                               /\ ~BagIn(<<m, u>>, table)}
        rows == {<<m, u>> : m \in unread_messages}
    IN  [read_statuses |-> bulk_create(rows, table),
         marked        |-> Cardinality(rows)]

\* A mark_read without the test on the sender.
message_mark_read_any(u, m, table) ==
    LET got == get_or_create(<<m, u>>, table)
    IN  [status |-> 200,
         body |-> IF got.created THEN "Message marked as read"
                                 ELSE "Message was already read",
         read_statuses |-> got.table]

\* MessageViewSet.mark_read by u on message m of get_queryset().
message_mark_read(u, m, table) ==
    IF chat_messages[m].sender = u
    THEN [status |-> 400, body |-> "Cannot mark your own message as read",
          read_statuses |-> table]
    ELSE LET got == get_or_create(<<m, u>>, table)
         IN  [status |-> 200,
              body |-> IF got.created THEN "Message marked as read"
                                      ELSE "Message was already read",
              read_statuses |-> got.table]

\* MessageViewSet.unread for u with ?conversation_id=c: the count returned.
unread(u, c) ==
    Cardinality({m \in get_queryset(u) :
                    /\ chat_messages[m].sender # u
                    /\ ~BagIn(<<m, u>>, read_statuses)
                    /\ chat_messages[m].conversation = c})

\* ConversationListSerializer.get_unread_count for the request's user u.
get_unread_count(u, c) ==
    Cardinality({m \in messages_of(c) :
                    /\ ~chat_messages[m].is_read
                    /\ chat_messages[m].sender # u})

\* POST /messages/ by u with conversation = c.  create() puts the user's id
\* into the posted sender_id and calls serializer.save(); it does not call
\* perform_create, and the serializer's conversation field accepts every
\* stored conversation.
SendMessage(u, c) ==
    /\ Len(chat_messages) < MaxChatMessages
    /\ c \in DOMAIN conversations
    /\ chat_messages' = Append(chat_messages, ChatMessage(u, c))
    /\ reply' = [op |-> "create_message", status |-> 201, user |-> u,
                 conversation |-> c]
    /\ UNCHANGED <<conversations, read_statuses>>
    /\ UNCHANGED participation
    /\ UNCHANGED messaging

\* POST /conversations/{c}/mark_read/ by u
ConversationMarkRead(u, c) ==
    /\ c \in DOMAIN conversations
    /\ IF u \in conversations[c]
       THEN LET done == conversation_mark_read(u, c, read_statuses)
            IN  /\ read_statuses' = done.read_statuses
                /\ reply' = [op |-> "conversation_mark_read", status |-> 200,
                             user |-> u, conversation |-> c,
                             marked |-> done.marked]
       ELSE /\ reply' = [op |-> "conversation_mark_read", status |-> 404]
            /\ UNCHANGED read_statuses
    /\ UNCHANGED <<conversations, chat_messages>>
    /\ UNCHANGED participation
    /\ UNCHANGED messaging

\* POST /messages/{m}/mark_read/ by u
MessageMarkRead(u, m) ==
    /\ m \in DOMAIN chat_messages
    /\ IF m \in get_queryset(u)
       THEN LET done == message_mark_read(u, m, read_statuses)
            IN  /\ read_statuses' = done.read_statuses
                /\ reply' = [op |-> "message_mark_read",
                             status |-> done.status, user |-> u,
                             message |-> m, body |-> done.body]
       ELSE /\ reply' = [op |-> "message_mark_read", status |-> 404]
            /\ UNCHANGED read_statuses
    /\ UNCHANGED <<conversations, chat_messages>>
    /\ UNCHANGED participation
    /\ UNCHANGED messaging

\* The conversations and messages of the chats API, and their read marks.
NextChat ==
    \/ \E u \in ChatUsers, c \in DOMAIN Conversations : SendMessage(u, c)
    \/ \E u \in ChatUsers, c \in DOMAIN Conversations :
          ConversationMarkRead(u, c)
    \/ \E u \in ChatUsers, m \in 1..MaxChatMessages : MessageMarkRead(u, m)

SpecChat == Init /\ [][NextChat]_vars

\* ------------------------------------------- the participants of the chats
\* The user_id a request can post: none, a stored user, or an id that
\* names no user.
UserIds == {NULL} \cup {Some(u) : u \in ChatUsers} \cup {Some(9)}

\* The system message the participant actions create.
SystemMessage(s, c) ==
    [sender |-> s, conversation |-> c, is_read |-> FALSE,
     message_type |-> "system"]

\* A remove_participant that does not look at the participant count.
remove_participant_uncounted(u, c, user_id) ==
    IF u \notin conversations[c] THEN 404
    ELSE IF user_id = NULL THEN 400
    ELSE IF user_id[1] \notin ChatUsers THEN 404
    ELSE 200

\* ConversationViewSet.remove_participant by u on conversation c with the
\* posted user_id, up to the test on the participant count: the status of
\* the error response, or 200 when the removal goes ahead.
remove_participant(u, c, user_id) ==
    IF u \notin conversations[c] THEN 404            \* get_object()
    ELSE IF user_id = NULL THEN 400                  \* if not user_id
    ELSE IF user_id[1] \notin ChatUsers THEN 404     \* User.DoesNotExist
    ELSE IF Cardinality(conversations[c]) <= 1 THEN 400
    ELSE 200

\* conversation.participants.remove(user) and the system message by u.
Removed(u, c, user) ==
    /\ Len(chat_messages) < MaxChatMessages
    /\ conversations' = [conversations EXCEPT ![c] = @ \ {user}]
    /\ chat_messages' = Append(chat_messages, SystemMessage(u, c))

\* POST /conversations/{c}/remove_participant/ by u
RemoveParticipant(u, c, user_id) ==
    /\ c \in DOMAIN conversations
    /\ LET status == remove_participant(u, c, user_id)
       IN  /\ IF status = 200
              THEN Removed(u, c, user_id[1])
              ELSE UNCHANGED <<conversations, chat_messages>>
           /\ reply' = [op |-> "remove_participant", status |-> status,
                        user |-> u, conversation |-> c,
                        user_id |-> user_id]
    /\ UNCHANGED <<read_statuses, is_active, requests>>
    /\ UNCHANGED messaging

\* ConversationViewSet.leave by u on conversation c, up to the test on the
\* participant count: 404, "last" (the conversation is made inactive) or
\* "remove" (the user is removed).
leave(u, c) ==
    IF u \notin conversations[c] THEN "404"          \* get_object()
    ELSE IF Cardinality(conversations[c]) <= 1 THEN "last"
    ELSE "remove"

\* POST /conversations/{c}/leave/ by u
Leave(u, c) ==
    /\ c \in DOMAIN conversations
    /\ LET branch == leave(u, c)
       IN  /\ IF branch = "remove"
              THEN Removed(u, c, u)
              ELSE UNCHANGED <<conversations, chat_messages>>
           /\ is_active' = IF branch = "last"
                           THEN [is_active EXCEPT ![c] = FALSE]
                           ELSE is_active
           /\ reply' = [op |-> "leave",
                        status |-> IF branch = "404" THEN 404 ELSE 200,
                        user |-> u, conversation |-> c]
    /\ UNCHANGED <<read_statuses, requests>>
    /\ UNCHANGED messaging

\* The participant endpoints, one request at a time.
NextParticipants ==
    \/ \E u \in ChatUsers, c \in DOMAIN Conversations, user_id \in UserIds :
          RemoveParticipant(u, c, user_id)
    \/ \E u \in ChatUsers, c \in DOMAIN Conversations : Leave(u, c)

SpecParticipants == Init /\ [][NextParticipants]_vars

\* ------------------------------------- concurrent participant requests
\* The request op ("remove_participant" or "leave") of u on conversation c
\* that has read the participant count and is about to remove `user`.
Removing(op, u, c, user) ==
    [op |-> op, by |-> u, conversation |-> c, user |-> user]

\* u has no request in progress.
NoRequestOf(u) == \A r \in requests : r.by # u

\* remove_participant by u, up to and including the test on the count.
RemoveParticipantRead(u, c, user_id) ==
    /\ c \in DOMAIN conversations
    /\ NoRequestOf(u)
    /\ LET status == remove_participant(u, c, user_id)
       IN  IF status = 200
           THEN /\ requests' = requests
                       \cup {Removing("remove_participant", u, c, user_id[1])}
                /\ UNCHANGED reply
           ELSE /\ reply' = [op |-> "remove_participant", status |-> status,
                             user |-> u, conversation |-> c,
                             user_id |-> user_id]
                /\ UNCHANGED requests
    /\ UNCHANGED <<conversations, chat_messages, read_statuses, is_active>>
    /\ UNCHANGED messaging

\* leave by u, up to and including the test on the count.
LeaveRead(u, c) ==
    /\ c \in DOMAIN conversations
    /\ NoRequestOf(u)
    /\ LET branch == leave(u, c)
       IN  /\ requests' = IF branch = "remove"
                          THEN requests \cup {Removing("leave", u, c, u)}
                          ELSE requests
           /\ is_active' = IF branch = "last"
                           THEN [is_active EXCEPT ![c] = FALSE]
                           ELSE is_active
           /\ reply' = IF branch = "remove" THEN reply
                       ELSE [op |-> "leave",
                             status |-> IF branch = "404" THEN 404 ELSE 200,
                             user |-> u, conversation |-> c]
    /\ UNCHANGED <<conversations, chat_messages, read_statuses>>
    /\ UNCHANGED messaging

\* The rest of a request that passed the test on the count: the removal,
\* the system message and the response.
RemoveWrite(r) ==
    /\ r \in requests
    /\ Removed(r.by, r.conversation, r.user)
    /\ requests' = requests \ {r}
    /\ reply' = IF r.op = "leave"
                THEN [op |-> "leave", status |-> 200, user |-> r.by,
                      conversation |-> r.conversation]
                ELSE [op |-> "remove_participant", status |-> 200,
                      user |-> r.by, conversation |-> r.conversation,
                      user_id |-> Some(r.user)]
    /\ UNCHANGED <<read_statuses, is_active>>
    /\ UNCHANGED messaging

\* The participant endpoints, the requests of different users interleaved.
NextLeaving ==
    \/ \E u \in ChatUsers, c \in DOMAIN Conversations, user_id \in UserIds :
          RemoveParticipantRead(u, c, user_id)
    \/ \E u \in ChatUsers, c \in DOMAIN Conversations : LeaveRead(u, c)
    \/ \E r \in requests : RemoveWrite(r)

SpecLeaving == Init /\ [][NextLeaving]_vars

\* ------------------------------------------- concurrent mark_read requests
\* The slots of the requests in progress.
RequestIds == 1..MaxRequests

\* Slot id holds no request.
Free(id) == \A r \in requests : r.id # id

\* ConversationViewSet.mark_read by u on conversation c, first part: the
\* query for the unread messages and the list of rows built from it.
ConversationMarkReadRead(id, u, c) ==
    /\ c \in DOMAIN conversations
    /\ Free(id)
    /\ IF u \in conversations[c]
       THEN LET unread_messages == {m \in messages_of(c) :
                                       /\ chat_messages[m].sender # u
                                       /\ ~BagIn(<<m, u>>, read_statuses)}
            IN  /\ requests' = requests
                      \cup {[id |-> id, op |-> "conversation_mark_read",
                             user |-> u, conversation |-> c,
                             rows |-> {<<m, u>> : m \in unread_messages}]}
                /\ UNCHANGED reply
       ELSE /\ reply' = [op |-> "conversation_mark_read", status |-> 404]
            /\ UNCHANGED requests
    /\ UNCHANGED <<conversations, chat_messages, read_statuses, is_active>>
    /\ UNCHANGED messaging

\* ConversationViewSet.mark_read, second part: the bulk_create of the rows
\* and the response.
ConversationMarkReadWrite(r) ==
    /\ r \in requests
    /\ r.op = "conversation_mark_read"
    /\ read_statuses' = bulk_create(r.rows, read_statuses)
    /\ requests' = requests \ {r}
    /\ reply' = [op |-> "conversation_mark_read", status |-> 200,
                 user |-> r.user, conversation |-> r.conversation,
                 marked |-> Cardinality(r.rows)]
    /\ UNCHANGED <<conversations, chat_messages, is_active>>
    /\ UNCHANGED messaging

\* MessageViewSet.mark_read by u on message m, first part: the test on the
\* sender and the SELECT of get_or_create.
MessageMarkReadRead(id, u, m) ==
    /\ m \in DOMAIN chat_messages
    /\ Free(id)
    /\ IF m \notin get_queryset(u)
       THEN /\ reply' = [op |-> "message_mark_read", status |-> 404]
            /\ UNCHANGED requests
       ELSE IF chat_messages[m].sender = u \/ BagIn(<<m, u>>, read_statuses)
       THEN LET done == message_mark_read(u, m, read_statuses)
            IN  /\ reply' = [op |-> "message_mark_read",
                             status |-> done.status, user |-> u,
                             message |-> m, body |-> done.body]
                /\ UNCHANGED requests
       ELSE /\ requests' = requests
                   \cup {[id |-> id, op |-> "message_mark_read",
                          user |-> u, message |-> m]}
            /\ UNCHANGED reply
    /\ UNCHANGED <<conversations, chat_messages, read_statuses, is_active>>
    /\ UNCHANGED messaging

\* MessageViewSet.mark_read, second part: the INSERT of get_or_create.  When
\* the unique constraint rejects it (the row exists by now), get_or_create
\* catches the IntegrityError and returns the stored row with created False.
MessageMarkReadWrite(r) ==
    /\ r \in requests
    /\ r.op = "message_mark_read"
    /\ LET row == <<r.message, r.user>>
           got == IF unique_together(row, read_statuses)
                  THEN [table |-> read_statuses, created |-> FALSE]
                  ELSE [table |-> read_statuses (+) SetToBag({row}),
                        created |-> TRUE]
       IN  /\ read_statuses' = got.table
           /\ reply' = [op |-> "message_mark_read", status |-> 200,
                        user |-> r.user, message |-> r.message,
                        body |-> IF got.created
                                 THEN "Message marked as read"
                                 ELSE "Message was already read"]
    /\ requests' = requests \ {r}
    /\ UNCHANGED <<conversations, chat_messages, is_active>>
    /\ UNCHANGED messaging

\* The message and mark_read endpoints, the mark_read requests interleaved.
NextMarking ==
    \/ \E u \in ChatUsers, c \in DOMAIN Conversations : SendMessage(u, c)
    \/ \E id \in RequestIds, u \in ChatUsers, c \in DOMAIN Conversations :
          ConversationMarkReadRead(id, u, c)
    \/ \E r \in requests : ConversationMarkReadWrite(r)
    \/ \E id \in RequestIds, u \in ChatUsers, m \in 1..MaxChatMessages :
          MessageMarkReadRead(id, u, m)
    \/ \E r \in requests : MessageMarkReadWrite(r)

SpecMarking == Init /\ [][NextMarking]_vars

\* ------------------------------------------------------------ properties
\* The rows of MessageHistory that belong to message m, in creation order.
HistoryOf(m, hist) == SelectSeq(hist, LAMBDA row : row.message = m)

\* The text the tests expect in the notification for a message of sender u.
ExpectedNotificationContent ==
    (1 :> "You have a new message from user1" @@
     2 :> "You have a new message from user2" @@
     3 :> "You have a new message from user3")

\* C1: creating a message with sender S and receiver R adds exactly one
\* Notification and removes none; the new row is addressed to R, references
\* the message, has type 'message', is unread and reads 'You have a new
\* message from <S's username>' (so log_message_creation adds none).
C1_CreateYieldsOneNotification ==
    [][last'.op = "create" =>
         LET new == notifications' \ notifications
             msg == messages'[last'.pk]
         IN  /\ notifications \subseteq notifications'
             /\ Cardinality(new) = 1
             /\ \A n \in new :
                   /\ n.user = msg.receiver
                   /\ n.message = last'.pk
                   /\ n.notification_type = "message"
                   /\ n.is_read = FALSE
                   /\ n.content = ExpectedNotificationContent[msg.sender]]_vars

\* C1 witness: a second message has just been created with sender and
\* receiver distinct, and its notification is stored next to the first one.
C1_Witness ==
    /\ last.op = "create"
    /\ messages[last.pk].sender # messages[last.pk].receiver
    /\ \E n \in notifications : n.message = last.pk
    /\ Cardinality(notifications) = 2

\* C2: saving a message whose row is stored, with or without a change of
\* content, leaves the Notification table as it was.
C2_UpdateCreatesNoNotification ==
    [][(last'.op = "save" /\ ~last'.created) =>
         notifications' = notifications]_vars

\* C2 witness: a stored message was saved with changed content while its
\* notification is stored.
C2_Witness ==
    /\ last.op = "save" /\ ~last.created /\ last.changed
    /\ \E n \in notifications : n.message = last.pk

\* C3: for every stored message, its history rows in creation order hold
\* the contents the row held before each content-changing update: with N
\* such updates there are N rows and row i holds the content replaced by
\* update i (the creation content for i = 1).
C3_HistoryHoldsReplacedContents ==
    \A m \in DOMAIN messages :
        LET rows == HistoryOf(m, history)
        IN  /\ Len(rows) = Len(versions[m]) - 1
            /\ \A i \in 1..Len(rows) : rows[i].old_content = versions[m][i]

\* C3 witness: a message was updated twice with changing content.
C3_Witness ==
    \E m \in DOMAIN messages :
        /\ Len(versions[m]) >= 3
        /\ versions[m][1] # versions[m][2]

\* C4: a save of a stored message whose content equals the stored content
\* adds no history row, and if the saved object had edited false and
\* last_edited_at empty, the object and the stored row still have.
C4_UnchangedSaveLeavesNoTrace ==
    [][(last'.op = "save" /\ ~last'.created /\ ~last'.changed) =>
         /\ history' = history
         /\ LET before == objs[last'.handle]
                after  == objs'[last'.handle]
                row    == messages'[last'.pk]
            IN  (before.edited = FALSE /\ before.last_edited_at = NULL) =>
                   /\ after.edited = FALSE /\ after.last_edited_at = NULL
                   /\ row.edited = FALSE /\ row.last_edited_at = NULL]_vars

\* C4 witness: a never-edited stored message was saved unchanged while
\* another message has history.
C4_Witness ==
    /\ last.op = "save" /\ ~last.created /\ ~last.changed
    /\ messages[last.pk].edited = FALSE
    /\ messages[last.pk].last_edited_at = NULL
    /\ history # <<>>

\* C5: creating a message adds no history row, and the created message
\* (object and row) has edited false and last_edited_at empty.
C5_CreateLeavesNoHistory ==
    [][last'.op = "create" =>
         /\ history' = history
         /\ messages'[last'.pk].edited = FALSE
         /\ messages'[last'.pk].last_edited_at = NULL
         /\ objs'[last'.handle].edited = FALSE
         /\ objs'[last'.handle].last_edited_at = NULL]_vars

\* C5 witness: a message was created while another message is stored and
\* has history.
C5_Witness ==
    /\ last.op = "create"
    /\ last.pk \in DOMAIN messages
    /\ history # <<>>

\* C6: after a save that changed the stored content, the stored message
\* has edited true and a last_edited_at.
C6_ChangedSaveMarksEdited ==
    (last.op = "save" /\ last.changed) =>
        /\ messages[last.pk].edited = TRUE
        /\ messages[last.pk].last_edited_at # NULL

\* C6 witness: the first content-changing save of a message.
C6_Witness ==
    /\ last.op = "save" /\ last.changed
    /\ Len(versions[last.pk]) = 2

\* C7: a save that changes the stored content appends one history row; it
\* references the saved message and its edited_by is the message's sender.
C7_HistoryRowNamesMessageAndSender ==
    [][(last'.op = "save" /\ last'.changed) =>
         /\ Len(history') = Len(history) + 1
         /\ SubSeq(history', 1, Len(history)) = history
         /\ history'[Len(history')].message = last'.pk
         /\ history'[Len(history')].edited_by
                = Some(messages'[last'.pk].sender)]_vars

\* C7 witness: a message whose sender is not its receiver was edited.
C7_Witness ==
    /\ last.op = "save" /\ last.changed
    /\ messages[last.pk].sender # messages[last.pk].receiver
    /\ history # <<>>

\* C8: right after user U is deleted, no stored message has U as sender or
\* receiver and no stored notification is addressed to U.
C8_DeleteUserCascades ==
    last.op = "delete_user" =>
        /\ \A m \in DOMAIN messages :
              messages[m].sender # last.user /\ messages[m].receiver # last.user
        /\ \A n \in notifications : n.user # last.user

\* C8 witness: the deleted user had sent a message, received another one
\* and had a notification.
C8_Witness ==
    /\ last.op = "delete_user"
    /\ Cardinality(last.gone) = 2
    /\ last.notified # {}

\* C9: deleting user U removes no other user, and every message in which U
\* is neither sender nor receiver is stored afterwards with the same row.
C9_DeleteUserSparesOthers ==
    [][last'.op = "delete_user" =>
         /\ users' = users \ {last'.user}
         /\ \A m \in DOMAIN messages :
               (messages[m].sender # last'.user
                   /\ messages[m].receiver # last'.user)
               => (m \in DOMAIN messages' /\ messages'[m] = messages[m])]_vars

\* C9 witness: a user was deleted, a message went with them and an edited
\* message of other users is still stored.
C9_Witness ==
    /\ last.op = "delete_user"
    /\ last.gone # {}
    /\ \E m \in DOMAIN messages : messages[m].edited

\* C10: in every step each history row stays with the same message and
\* old_content, or disappears together with its message; and no history row
\* outlives its message.
C10_HistoryAppendOnly ==
    [][/\ \A i \in 1..Len(history) :
             \/ \E j \in 1..Len(history') :
                   /\ history'[j].history_id = history[i].history_id
                   /\ history'[j].message = history[i].message
                   /\ history'[j].old_content = history[i].old_content
             \/ /\ history[i].message \in DOMAIN messages
                /\ history[i].message \notin DOMAIN messages'
       /\ \A j \in 1..Len(history') :
             history'[j].message \in DOMAIN messages']_vars

\* C10 witness: a user deletion removed the history of one message and
\* left the history of another one.
C10_Witness ==
    /\ last.op = "delete_user"
    /\ last.gone # {}
    /\ Len(history) >= 1
    /\ nextHistoryId - 1 > Len(history)

\* C11: a message's sender and receiver are immutable after creation: no
\* step of creating or saving messages changes the sender or the receiver
\* of a stored message.
C11_SenderReceiverImmutable ==
    [][\A m \in DOMAIN messages \cap DOMAIN messages' :
          /\ messages'[m].sender = messages[m].sender
          /\ messages'[m].receiver = messages[m].receiver]_vars

\* C12: no stored message is referenced by more than one notification.
C12_OneNotificationPerMessage ==
    \A m \in DOMAIN messages :
        Cardinality({n \in notifications : n.message = m}) <= 1

\* C12 witness: after a user was deleted, a stored message that was saved
\* with a new content twice has its notification, which was read.
C12_Witness ==
    /\ users # Users
    /\ \E m \in DOMAIN messages :
          /\ Len(HistoryOf(m, history)) >= 2
          /\ \E n \in notifications : n.message = m /\ n.is_read

\* C13: a conversation mark_read by participant U creates one read-status
\* row (message, U) for each message of the conversation that U did not
\* author and that had no row for U, creates no other row and reports their
\* number; invoked again right after, it creates no row and reports 0.
C13_ConversationMarkReadCreatesUnreadRows ==
    [][(reply'.op = "conversation_mark_read" /\ reply'.status = 200) =>
         LET U   == reply'.user
             c   == reply'.conversation
             due == {m \in DOMAIN chat_messages :
                        /\ chat_messages[m].conversation = c
                        /\ chat_messages[m].sender # U
                        /\ CopiesIn(<<m, U>>, read_statuses) = 0}
         IN  /\ \A m \in DOMAIN chat_messages, u \in ChatUsers :
                   CopiesIn(<<m, u>>, read_statuses') =
                      CopiesIn(<<m, u>>, read_statuses)
                         + (IF u = U /\ m \in due THEN 1 ELSE 0)
             /\ reply'.marked = Cardinality(due)
             /\ (/\ reply.op = "conversation_mark_read"
                 /\ reply.status = 200
                 /\ reply.user = U
                 /\ reply.conversation = c)
                   => (read_statuses' = read_statuses /\ reply'.marked = 0)
      ]_vars

\* C13 witness: U marked a conversation that holds a message of U and a
\* message of another user: one row was created, for the other's message.
C13_Witness ==
    /\ reply.op = "conversation_mark_read"
    /\ reply.status = 200
    /\ reply.marked = 1
    /\ \E m1, m2 \in DOMAIN chat_messages :
          /\ chat_messages[m1].conversation = reply.conversation
          /\ chat_messages[m2].conversation = reply.conversation
          /\ chat_messages[m1].sender = reply.user
          /\ chat_messages[m2].sender # reply.user
          /\ CopiesIn(<<m1, reply.user>>, read_statuses) = 0
          /\ CopiesIn(<<m2, reply.user>>, read_statuses) = 1

\* C14: for a participant U of a conversation, the unread count of the
\* conversation list and the count of the unread action both equal the
\* number of the conversation's messages not authored by U minus those
\* with a read-status row for U; both are 0 right after U marked the
\* conversation read.
C14_UnreadCountIsUnmarkedOthers ==
    \A c \in DOMAIN conversations : \A U \in conversations[c] :
        LET others   == {m \in DOMAIN chat_messages :
                            /\ chat_messages[m].conversation = c
                            /\ chat_messages[m].sender # U}
            seen     == {m \in others :
                            CopiesIn(<<m, U>>, read_statuses) > 0}
            expected == Cardinality(others) - Cardinality(seen)
        IN  /\ get_unread_count(U, c) = expected
            /\ unread(U, c) = expected
            /\ (/\ reply.op = "conversation_mark_read"
                /\ reply.status = 200
                /\ reply.user = U
                /\ reply.conversation = c)
                  => (get_unread_count(U, c) = 0 /\ unread(U, c) = 0)

\* C15: when an object whose row has been deleted is saved, the pre-save
\* handler skips: no history row is created, edited and last_edited_at of
\* the object stay as they were, and the handler does not fail the save (the
\* row is inserted again when its sender and receiver still exist; otherwise
\* the insert itself fails on the foreign key).
C15_VanishedRowSkipsSilently ==
    [][(/\ last'.op \in {"save", "save_failed"}
        /\ last'.pk \notin DOMAIN messages) =>
          LET h == last'.handle
          IN  /\ history' = history
              /\ objs'[h].edited = objs[h].edited
              /\ objs'[h].last_edited_at = objs[h].last_edited_at
              /\ last'.op = "save_failed" => last'.cause = "IntegrityError"
              /\ (objs[h].sender \in users /\ objs[h].receiver \in users)
                    => /\ last'.op = "save"
                       /\ last'.pk \in DOMAIN messages'
                       /\ messages'[last'.pk] = RowOf(objs[h])
      ]_vars

\* C15 witness: an object whose row was deleted has been saved: the row is
\* stored again with the object's content, it is not marked as edited, and
\* no history row exists.
C15_Witness ==
    /\ last.op = "save"
    /\ last.created
    /\ last.pk \in DOMAIN messages
    /\ ~messages[last.pk].edited
    /\ messages[last.pk].last_edited_at = NULL
    /\ messages[last.pk].content = "Version 2"
    /\ history = <<>>

C17_MarkAsRead ==
    [][/\ last'.op = "mark_as_read" =>
             LET id  == last'.notification
                 old == CHOOSE n \in notifications : n.notification_id = id
             IN  /\ notifications' =
                       (notifications \ {old})
                          \cup {[old EXCEPT !.is_read = TRUE]}
                 /\ old.is_read => notifications' = notifications
                 /\ messages' = messages
                 /\ history' = history
                 /\ users' = users
       /\ \A n \in notifications, n2 \in notifications' :
             (n.notification_id = n2.notification_id /\ n.is_read)
                => n2.is_read
      ]_vars

\* C17 witness: a notification was marked as read while another
\* notification is unread and an edited message has its history row.
C17_Witness ==
    /\ last.op = "mark_as_read"
    /\ \E n \in notifications :
          n.notification_id = last.notification /\ n.is_read
    /\ \E n \in notifications : ~n.is_read
    /\ history # <<>>

\* C18: a delete_user request deletes the account, with the user's messages
\* and notifications, only when the confirmation posted spells 'delete' in
\* any mix of upper and lower case, and then it does; with any other or no
\* confirmation the users, messages, history and notifications stay as they
\* were and the request is redirected back to the confirmation page.
C18_DeleteUserNeedsConfirmation ==
    [][("POST" \in DOMAIN last') =>
          LET POST  == last'.POST
              typed == "confirmation" \in DOMAIN POST
              spelt == /\ typed
                       /\ Len(POST.confirmation) = 6
                       /\ \A i \in 1..6 :
                             POST.confirmation[i] \in
                                {<<"d", "e", "l", "e", "t", "e">>[i],
                                 <<"D", "E", "L", "E", "T", "E">>[i]}
          IN  IF spelt
              THEN /\ last'.op = "delete_user"
                   /\ last'.redirect = "account_deleted"
                   /\ users' = users \ {last'.user}
                   /\ \A m \in DOMAIN messages' :
                         /\ messages'[m].sender # last'.user
                         /\ messages'[m].receiver # last'.user
                   /\ \A n \in notifications' : n.user # last'.user
              ELSE /\ last'.op = "delete_refused"
                   /\ last'.redirect = "delete_user_account"
                   /\ users' = users
                   /\ messages' = messages
                   /\ history' = history
                   /\ notifications' = notifications
      ]_vars

\* C18 witness: a user who typed 'DeLETe' was deleted together with a
\* message, and an edited message of other users is still stored.
C18_Witness ==
    /\ last.op = "delete_user"
    /\ "POST" \in DOMAIN last
    /\ last.POST = [confirmation |-> <<"D", "e", "L", "E", "T", "e">>]
    /\ last.gone # {}
    /\ \E m \in DOMAIN messages : messages[m].edited

\* C19: the data summary of an existing user U counts the stored messages
\* U sent and those U received, and its notifications_count equals its
\* received_messages_count: every stored message received by U has exactly
\* one notification, addressed to U, and every notification of U belongs
\* to a stored message received by U.
C19_UserDataSummary ==
    \A U \in users :
        LET summary == user_data_summary(U)
        IN  /\ summary.sent_messages_count =
                  Cardinality({m \in DOMAIN messages :
                                  messages[m].sender = U})
            /\ summary.received_messages_count =
                  Cardinality({m \in DOMAIN messages :
                                  messages[m].receiver = U})
            /\ summary.notifications_count
                  = summary.received_messages_count
            /\ \A m \in DOMAIN messages :
                  messages[m].receiver = U =>
                     Cardinality({n \in notifications :
                                     n.message = m /\ n.user = U}) = 1
            /\ \A n \in notifications :
                  n.user = U =>
                     /\ n.message \in DOMAIN messages
                     /\ messages[n.message].receiver = U

\* C19 witness: after an edit and the deletion of another user, a user has
\* sent one message and received one, and has one notification.
C19_Witness ==
    /\ users # Users
    /\ history # <<>>
    /\ \E U \in users :
          /\ user_data_summary(U).sent_messages_count = 1
          /\ user_data_summary(U).received_messages_count = 1
          /\ user_data_summary(U).notifications_count = 1

\* C20: a message-level mark_read by user U on a message U can see: when U
\* is the sender it answers 400 and creates no row; otherwise it answers
\* 200, and when no row (message, U) exists it creates that row and says
\* 'marked as read', when the row exists it creates nothing and says
\* 'already read'. No request removes a row, so every call after the one
\* that found no row finds it.
C20_MessageMarkRead ==
    [][/\ \A m \in DOMAIN chat_messages, u \in ChatUsers :
             CopiesIn(<<m, u>>, read_statuses')
                >= CopiesIn(<<m, u>>, read_statuses)
       /\ (reply'.op = "message_mark_read" /\ reply'.status # 404) =>
             LET U   == reply'.user
                 m   == reply'.message
                 had == CopiesIn(<<m, U>>, read_statuses)
             IN  IF chat_messages[m].sender = U
                 THEN /\ reply'.status = 400
                      /\ read_statuses' = read_statuses
                 ELSE /\ reply'.status = 200
                      /\ had = 0 =>
                            /\ reply'.body = "Message marked as read"
                            /\ read_statuses' =
                                  read_statuses (+) SetToBag({<<m, U>>})
                      /\ had > 0 =>
                            /\ reply'.body = "Message was already read"
                            /\ read_statuses' = read_statuses
      ]_vars

\* C20 witness: a user who is not the sender marked a message that had its
\* row for that user already, and was told so; the sender of the message
\* has no row.
C20_Witness ==
    /\ reply.op = "message_mark_read"
    /\ reply.status = 200
    /\ reply.body = "Message was already read"
    /\ CopiesIn(<<reply.message, reply.user>>, read_statuses) = 1
    /\ CopiesIn(<<reply.message, chat_messages[reply.message].sender>>,
                read_statuses) = 0

\* C21: a message is stored through the message create endpoint only if
\* the requesting user is a participant of the conversation at the time of
\* the request, and the stored message's sender is the requesting user.
C21_CreateOnlyByParticipant ==
    [][reply'.op = "create_message" /\ reply'.status = 201
          => /\ Len(chat_messages') = Len(chat_messages) + 1
             /\ chat_messages'[Len(chat_messages')].sender = reply'.user
             /\ chat_messages'[Len(chat_messages')].conversation
                   = reply'.conversation
             /\ reply'.user \in conversations[reply'.conversation]]_vars

\* C22: remove_participant on a conversation with one participant or fewer
\* is rejected with 400 and changes nothing; a request whose user_id is
\* missing or names no user is rejected with 400 or 404 and changes nothing.
\* (The request comes from a participant and, in the first case, names a
\* stored user; other requests are answered 404 and change nothing too.)
C22_RemoveParticipantRejected ==
    [][reply'.op = "remove_participant"
          => LET c == reply'.conversation
                 few == Cardinality(conversations[c]) <= 1
                 bad == \/ reply'.user_id = NULL
                        \/ reply'.user_id[1] \notin ChatUsers
             IN  /\ few \/ bad
                    => /\ reply'.status \in {400, 404}
                       /\ conversations' = conversations
                       /\ chat_messages' = chat_messages
                 /\ few /\ ~bad /\ reply'.user \in conversations[c]
                    => reply'.status = 400
                 /\ reply'.user_id = NULL /\ reply'.user \in conversations[c]
                    => reply'.status = 400]_vars

\* C22 witness: the only participant of a conversation asked to remove a
\* stored user and was answered 400.
C22_Witness ==
    /\ reply.op = "remove_participant"
    /\ reply.status = 400
    /\ reply.user_id \in {Some(u) : u \in ChatUsers}
    /\ conversations[reply.conversation] = {reply.user}

\* C23: with the parts of concurrent saves of one message interleaved, once
\* no save is in progress each message has as many history rows as writes
\* that changed its stored content, and the rows hold, in order, the
\* contents those writes replaced.
C23_ConcurrentHistoryMatchesWrites ==
    requests = {}
        => \A m \in DOMAIN messages :
              /\ Len(HistoryOf(m, history)) = Len(versions[m]) - 1
              /\ \A i \in 1..Len(HistoryOf(m, history)) :
                    i < Len(versions[m])
                        => HistoryOf(m, history)[i].old_content
                              = versions[m][i]

\* C24: in every state reached by creations and saves, including the save
\* of a copy loaded before another copy of the message was saved, a stored
\* message has edited true if and only if it has a history row.
C24_EditedIffHistory ==
    \A m \in DOMAIN messages :
        messages[m].edited <=> HistoryOf(m, history) # <<>>

\* C25: under any interleaving of remove_participant and leave requests,
\* a conversation that has a participant never ends up with none.
C25_NeverWithoutParticipants ==
    [][\A c \in DOMAIN conversations :
          conversations[c] # {} => conversations'[c] # {}]_vars

\* C26: in every reachable state, concurrent conversation-level and
\* message-level mark_read requests of one user included, there is at most
\* one read-status row per (message, user) and no row whose user is the
\* sender of its message.
C26_OneReadStatusPerPair ==
    \A row \in BagToSet(read_statuses) :
        /\ CopiesIn(row, read_statuses) = 1
        /\ row[1] \in DOMAIN chat_messages
        /\ chat_messages[row[1]].sender # row[2]

\* C26 witness: a conversation-level and a message-level mark_read of the
\* same user were both past their read when the row they both had found
\* missing was written by one of them.
C26_Witness ==
    \E r \in requests, m \in DOMAIN chat_messages :
        /\ BagIn(<<m, r.user>>, read_statuses)
        /\ \/ r.op = "message_mark_read" /\ r.message = m
           \/ r.op = "conversation_mark_read" /\ <<m, r.user>> \in r.rows
        /\ reply.op \in {"message_mark_read", "conversation_mark_read"}
        /\ reply.op # r.op
        /\ reply.status = 200
        /\ reply.user = r.user

====
